---------------------------- MODULE Spec2Model ----------------------------
(* The showdown arbiter (src/showdown/game.py): two contestant            *)
(* subprocesses, one reader thread per contestant draining its stdout     *)
(* into a bounded queue, and the single-threaded game() driver            *)
(* (setup, loop, finish, write_to_ui_queue, clean).                       *)
(*                                                                         *)
(* The arbiter thread is a program counter `pc`; every shared-state       *)
(* access of the code (Popen, poll, queue.get, stdin.write, kill) is one  *)
(* arbiter step.  The contestant processes and the reader threads are     *)
(* separate actions that interleave freely with the arbiter.              *)
EXTENDS Integers, Sequences, FiniteSets, TLC

(* game.py:17 sets TOTAL_TURNS = 100 and game.py:18 MAX_BULLETS = 6.      *)
(* The model keeps the names and scales the values so that the turn       *)
(* limit and the full magazine are both reached within the search.        *)
TOTAL_TURNS == 2
MAX_BULLETS == 2
Keys == {"a", "b"}
Other(k) == IF k = "a" THEN "b" ELSE "a"

(* ---------------------------------------------------------------------- *)
(* Commands (enum): member name -> value                                  *)
(* ---------------------------------------------------------------------- *)
Commands == [STAND |-> "stand", SHOOT |-> "shoot", DODGE |-> "dodge",
             RELOAD |-> "reload", SHOOT_NO_BULLET |-> "shoot_no_bullet",
             GAME_OVER |-> "game_over"]
Members == DOMAIN Commands

(* Mutant of CommandsOf: the lookup ignores the case of SHOOT.             *)
CommandsOf_ignores_case(value) ==
    IF value = "SHOOT" THEN "SHOOT"
    ELSE IF \E m \in Members : Commands[m] = value
    THEN CHOOSE m \in Members : Commands[m] = value
    ELSE "ValueError"

(* Commands(value): the member with that value, or ValueError.            *)
CommandsOf(value) ==
    IF \E m \in Members : Commands[m] = value
    THEN CHOOSE m \in Members : Commands[m] = value
    ELSE "ValueError"

(* ---------------------------------------------------------------------- *)
(* Raw lines on a contestant's stdout.  A line is its token, whether      *)
(* blanks surround the token (besides the newline), and whether its       *)
(* bytes are valid UTF-8.  Nothing reads the bytes of a line before       *)
(* read() decodes it: the pipe and the queue hold items, a line with its  *)
(* ordinal among the lines the process wrote, and a line whose bytes the  *)
(* writer left open is AnyLine; the step that dequeues it draws its bytes *)
(* from Lines.                                                            *)
(* ---------------------------------------------------------------------- *)
Line(tok, pad, utf8) == [tok |-> tok, pad |-> pad, utf8 |-> utf8]
BadLine == Line("\\xff", FALSE, FALSE)
Tokens == {"stand", "shoot", "dodge", "reload", "shoot_no_bullet",
           "game_over", "SHOOT", "fire", ""}
Lines == {Line(t, p, TRUE) : t \in Tokens, p \in BOOLEAN} \cup {BadLine}
AnyLine == Line("*", FALSE, TRUE)
Item(n, line) == [n |-> n, line |-> line]
LinesOf(item) == IF item.line = AnyLine THEN Lines ELSE {item.line}

(* line.decode("utf-8"): the text (token with its blanks), or a           *)
(* UnicodeDecodeError.                                                    *)
Decode(line) ==
    IF line.utf8 THEN [ok |-> TRUE, tok |-> line.tok, pad |-> line.pad]
    ELSE [ok |-> FALSE, tok |-> "", pad |-> FALSE]
(* str.strip(): the token without the surrounding blanks.                 *)
Strip(text) == text.tok

(* ---------------------------------------------------------------------- *)
(* State                                                                  *)
(* ---------------------------------------------------------------------- *)
VARIABLES
    pc,             \* arbiter position: [at |-> step, k |-> contestant or "-"]
    err,            \* exception propagating out of game(): "none" or its kind
    has_state,      \* game()'s `state` holds what setup() returned
    num_turn,       \* state["num_turn"]
    winner,         \* state["winner"]: "a", "b" or "none" (key absent)
    description,    \* state["description"], or NoDescription (key absent)
    cont,           \* game()'s `cont`
    state_queue,    \* snapshots put by write_to_ui_queue
    exited,         \* Contestant.exited
    bullets,        \* Contestant.bullets
    num_dodges,     \* Contestant.num_dodges
    latest_command, \* Contestant.latest_command ("None" before the first ask)
    contestant_name, \* Contestant.contestant_name: "unset" (no attribute),
                    \* "None", "" or "name" (any text that is not empty)
    proc,           \* subprocess: "none" (not spawned), "running", "exited"
    killed,         \* Contestant.kill() was called on the spawned process
    stdout_open,    \* write end of the contestant's stdout pipe is open
    stdin_ok,       \* read end of the contestant's stdin pipe is open
    stdin,          \* lines in the contestant's stdin pipe, not yet read
    written,        \* number of lines the process has written to its stdout
    pipe,           \* complete lines in the stdout pipe, not yet read
    stdout_queue,   \* Contestant.stdout_queue
    rd              \* reader thread: "none", "run", "done"

arbiterVars == <<pc, err, has_state, num_turn, winner, description, cont,
                 state_queue>>
contVars == <<exited, bullets, num_dodges, latest_command, contestant_name>>
procVars == <<proc, killed, stdout_open, stdin_ok, stdin, written>>
chanVars == <<pipe, stdout_queue, rd>>
vars == <<arbiterVars, contVars, procVars, chanVars>>

At(at, k) == [at |-> at, k |-> k]
NoK == "-"

(* state["description"]: the sentence finish() builds, by its kind, the   *)
(* winner it names and the number it cites.                               *)
Description(kind, who, n) == [kind |-> kind, who |-> who, n |-> n]
NoDescription == Description("unset", NoK, 0)

Init ==
    /\ pc = At("start", "a")
    /\ err = "none"
    /\ has_state = FALSE
    /\ num_turn = 0
    /\ winner = "none"
    /\ description = NoDescription
    /\ cont = TRUE
    /\ state_queue = <<>>
    /\ exited = [k \in Keys |-> FALSE]
    /\ bullets = [k \in Keys |-> 0]
    /\ num_dodges = [k \in Keys |-> 0]
    /\ latest_command = [k \in Keys |-> "None"]
    /\ contestant_name = [k \in Keys |-> "unset"]
    /\ proc = [k \in Keys |-> "none"]
    /\ killed = [k \in Keys |-> FALSE]
    /\ stdout_open = [k \in Keys |-> FALSE]
    /\ stdin_ok = [k \in Keys |-> FALSE]
    /\ stdin = [k \in Keys |-> <<>>]
    /\ written = [k \in Keys |-> 0]
    /\ pipe = [k \in Keys |-> <<>>]
    /\ stdout_queue = [k \in Keys |-> <<>>]
    /\ rd = [k \in Keys |-> "none"]

(* ---------------------------------------------------------------------- *)
(* The contestant processes and the reader threads                        *)
(* ---------------------------------------------------------------------- *)

(* The subprocess writes one complete line to its stdout, at most `ahead` *)
(* lines ahead of the arbiter (lines in the pipe or the queue).  A        *)
(* partial line (no newline yet) leaves readline blocked: it is no step   *)
(* at all.                                                                *)
Write(k, ahead) ==
    /\ proc[k] = "running"
    /\ stdout_open[k]
    /\ Len(pipe[k]) + Len(stdout_queue[k]) <= ahead
    /\ written' = [written EXCEPT ![k] = @ + 1]
    /\ pipe' = [pipe EXCEPT ![k] = Append(@, Item(written'[k], AnyLine))]
    /\ UNCHANGED <<arbiterVars, contVars, proc, killed, stdout_open, stdin_ok,
                   stdin, stdout_queue, rd>>

(* The subprocess closes its stdout and keeps running.                    *)
CloseStdout(k) ==
    /\ proc[k] = "running"
    /\ stdout_open[k]
    /\ stdout_open' = [stdout_open EXCEPT ![k] = FALSE]
    /\ UNCHANGED <<arbiterVars, contVars, chanVars, proc, killed, stdin_ok,
                   stdin, written>>

(* The subprocess exits by itself: its ends of the pipes close.           *)
Exit(k) ==
    /\ proc[k] = "running"
    /\ proc' = [proc EXCEPT ![k] = "exited"]
    /\ stdout_open' = [stdout_open EXCEPT ![k] = FALSE]
    /\ stdin_ok' = [stdin_ok EXCEPT ![k] = FALSE]
    /\ UNCHANGED <<arbiterVars, contVars, chanVars, killed, stdin, written>>

(* Mutant of ReaderPut: put_nowait in place of put, a line read while the *)
(* queue is full is discarded.                                            *)
ReaderPut_drops_when_full(k) ==
    /\ rd[k] = "run"
    /\ pipe[k] # <<>>
    /\ stdout_queue' = [stdout_queue EXCEPT
                          ![k] = IF Len(@) < 1 + TOTAL_TURNS
                                 THEN Append(@, Head(pipe[k])) ELSE @]
    /\ pipe' = [pipe EXCEPT ![k] = Tail(@)]
    /\ UNCHANGED <<arbiterVars, contVars, procVars, rd>>

(* enqueue_output: one iteration of `for line in iter(out.readline, b'')`: *)
(* readline returns a line and queue.put stores it; put blocks while the  *)
(* queue is full.                                                          *)
ReaderPut(k) ==
    /\ rd[k] = "run"
    /\ pipe[k] # <<>>
    /\ Len(stdout_queue[k]) < 1 + TOTAL_TURNS
    /\ stdout_queue' = [stdout_queue EXCEPT ![k] = Append(@, Head(pipe[k]))]
    /\ pipe' = [pipe EXCEPT ![k] = Tail(@)]
    /\ UNCHANGED <<arbiterVars, contVars, procVars, rd>>

(* enqueue_output: readline returns b'' at end of stream; out.close().    *)
ReaderEOF(k) ==
    /\ rd[k] = "run"
    /\ pipe[k] = <<>>
    /\ ~stdout_open[k]
    /\ rd' = [rd EXCEPT ![k] = "done"]
    /\ UNCHANGED <<arbiterVars, contVars, procVars, pipe, stdout_queue>>

(* The lines of a contestant that fixes the bytes of a line when it       *)
(* writes it: every token, shoot between blanks, and bytes that are not   *)
(* UTF-8.                                                                 *)
SaidLines == {Line(t, FALSE, TRUE) : t \in Tokens}
             \cup {Line("shoot", TRUE, TRUE), BadLine}

(* The subprocess writes one complete line whose bytes are fixed when it  *)
(* is written, at most `ahead` lines ahead of the arbiter.                *)
Say(k, ahead) ==
    /\ proc[k] = "running"
    /\ stdout_open[k]
    /\ Len(pipe[k]) + Len(stdout_queue[k]) <= ahead
    /\ written' = [written EXCEPT ![k] = @ + 1]
    /\ \E line \in SaidLines :
          pipe' = [pipe EXCEPT ![k] = Append(@, Item(written'[k], line))]
    /\ UNCHANGED <<arbiterVars, contVars, proc, killed, stdout_open, stdin_ok,
                   stdin, stdout_queue, rd>>

(* A contestant that echoes: the process reads the oldest line of its     *)
(* stdin (the token tell() wrote, without the newline) and writes it to   *)
(* its stdout as it is.                                                   *)
Echo(k) ==
    /\ proc[k] = "running"
    /\ stdout_open[k]
    /\ stdin[k] # <<>>
    /\ written' = [written EXCEPT ![k] = @ + 1]
    /\ pipe' = [pipe EXCEPT
                  ![k] = Append(@, Item(written'[k], Line(Head(stdin[k]), FALSE, TRUE)))]
    /\ stdin' = [stdin EXCEPT ![k] = Tail(@)]
    /\ UNCHANGED <<arbiterVars, contVars, proc, killed, stdout_open, stdin_ok,
                   stdout_queue, rd>>

(* The contestants of Spec write their next line once the arbiter has     *)
(* dequeued the one before.  The arbiter sees a contestant only through   *)
(* poll(), the head of its queue and the stdin pipe, so a contestant that *)
(* writes further ahead shows it nothing else.                            *)
Environment ==
    \E k \in Keys :
        \/ Write(k, 0)
        \/ CloseStdout(k)
        \/ Exit(k)
        \/ ReaderPut(k)
        \/ ReaderEOF(k)


(* ---------------------------------------------------------------------- *)
(* setup(): Contestant.__init__ for a, then b, then the liveness test     *)
(* ---------------------------------------------------------------------- *)

(* An exception leaves game() through its finally clause.                 *)
Raise(kind) ==
    /\ err' = kind
    /\ pc' = At("clean", "a")

AfterInit(k) == IF k = "a" THEN At("start", "b") ELSE At("setup_alive", "a")

(* The value read_name returns for a decoded and stripped line; the model *)
(* keeps of a name whether it is empty.                                   *)
Name(value) == IF value = "" THEN "" ELSE "name"

(* Contestant.__init__ lines 43-46: the name read_name returned and the   *)
(* three counters.                                                        *)
InitCounters(k, name) ==
    /\ contestant_name' = [contestant_name EXCEPT ![k] = name]
    /\ bullets' = [bullets EXCEPT ![k] = 1]
    /\ num_dodges' = [num_dodges EXCEPT ![k] = 0]
    /\ latest_command' = [latest_command EXCEPT ![k] = "None"]

(* Contestant.start: Popen succeeds (pipes, queue, reader thread) or      *)
(* raises PermissionError / FileNotFoundError, and then __init__ returns  *)
(* before read_name and before the counters are assigned.                 *)
Start(k) ==
    /\ pc = At("start", k)
    /\ \/ /\ proc' = [proc EXCEPT ![k] = "running"]
          /\ stdout_open' = [stdout_open EXCEPT ![k] = TRUE]
          /\ stdin_ok' = [stdin_ok EXCEPT ![k] = TRUE]
          /\ rd' = [rd EXCEPT ![k] = "run"]
          /\ pc' = At("name_poll", k)
          /\ UNCHANGED exited
       \/ /\ exited' = [exited EXCEPT ![k] = TRUE]
          /\ pc' = AfterInit(k)
          /\ UNCHANGED <<proc, stdout_open, stdin_ok, rd>>
    /\ UNCHANGED <<err, has_state, num_turn, winner, description, cont,
                   state_queue, bullets, num_dodges, latest_command,
                   contestant_name, killed, stdin, written, pipe, stdout_queue>>

(* read_name -> read(STARTUP_TIME): the poll.  EOFError marks the         *)
(* contestant exited; __init__ goes on to assign the counters.            *)
NamePoll(k) ==
    /\ pc = At("name_poll", k)
    /\ IF proc[k] # "running"
       THEN /\ exited' = [exited EXCEPT ![k] = TRUE]
            /\ InitCounters(k, "None")
            /\ pc' = AfterInit(k)
       ELSE /\ pc' = At("name_get", k)
            /\ UNCHANGED contVars
    /\ UNCHANGED <<err, has_state, num_turn, winner, description, cont,
                   state_queue, procVars, chanVars>>

(* read_name -> read(STARTUP_TIME): the timed queue.get and the decode.   *)
(* Timeout or an empty name marks the contestant exited; a line that is   *)
(* not UTF-8 raises UnicodeDecodeError, which read_name does not catch.   *)
NameGet(k) ==
    /\ pc = At("name_get", k)
    /\ IF stdout_queue[k] = <<>>
       THEN /\ exited' = [exited EXCEPT ![k] = TRUE]
            /\ InitCounters(k, "None")
            /\ pc' = AfterInit(k)
            /\ UNCHANGED <<err, stdout_queue>>
       ELSE \E line \in LinesOf(Head(stdout_queue[k])) :
            LET text == Decode(line) IN
            /\ stdout_queue' = [stdout_queue EXCEPT ![k] = Tail(@)]
            /\ IF ~text.ok
               THEN /\ Raise("UnicodeDecodeError")
                    /\ UNCHANGED contVars
               ELSE /\ exited' = [exited EXCEPT ![k] = (Name(Strip(text)) = "")]
                    /\ InitCounters(k, Name(Strip(text)))
                    /\ pc' = AfterInit(k)
                    /\ UNCHANGED err
    /\ UNCHANGED <<has_state, num_turn, winner, description, cont,
                   state_queue, procVars, pipe, rd>>

(* Mutant of IsAlive: the process is polled and `exited` is not read.     *)
IsAlive_ignores_exited(k) == proc[k] = "running"

(* Contestant.is_alive                                                    *)
IsAlive(k) == ~exited[k] /\ proc[k] = "running"

(* setup line 221-224: any(not is_alive) -> sys.exit(1), a tested before  *)
(* b; otherwise setup returns and game() holds the state.                 *)
SetupAlive(k) ==
    /\ pc = At("setup_alive", k)
    /\ IF ~IsAlive(k)
       THEN /\ Raise("SystemExit")
            /\ UNCHANGED has_state
       ELSE /\ pc' = IF k = "a" THEN At("setup_alive", "b") ELSE At("ask_alive", "a")
            /\ has_state' = (k = "b")
            /\ UNCHANGED err
    /\ UNCHANGED <<num_turn, winner, description, cont, state_queue,
                   contVars, procVars, chanVars>>

(* ---------------------------------------------------------------------- *)
(* Contestant.ask                                                         *)
(* ---------------------------------------------------------------------- *)

(* Mutant of AskCommand: without the test of line 141, every member of    *)
(* Commands is returned as it was parsed.                                 *)
AskCommand_returns_parsed(value, b, d) ==
    LET command == CommandsOf(value) IN
    IF command = "ValueError"
    THEN [command |-> "STAND", bullets |-> b, num_dodges |-> d]
    ELSE IF command = "SHOOT"
    THEN IF b # 0
         THEN [command |-> "SHOOT", bullets |-> b - 1, num_dodges |-> d]
         ELSE [command |-> "SHOOT_NO_BULLET", bullets |-> b, num_dodges |-> d]
    ELSE IF command = "RELOAD"
    THEN IF b = MAX_BULLETS
         THEN [command |-> "RELOAD", bullets |-> b, num_dodges |-> d]
         ELSE [command |-> "RELOAD", bullets |-> b + 1, num_dodges |-> d]
    ELSE IF command = "DODGE"
    THEN [command |-> "DODGE", bullets |-> b, num_dodges |-> d + 1]
    ELSE [command |-> command, bullets |-> b, num_dodges |-> d]

(* Mutant of AskCommand: reload without the MAX_BULLETS test of line 158. *)
AskCommand_reload_uncapped(value, b, d) ==
    LET command == CommandsOf(value) IN
    IF command = "ValueError" \/ command \notin {"SHOOT", "DODGE", "RELOAD"}
    THEN [command |-> "STAND", bullets |-> b, num_dodges |-> d]
    ELSE IF command = "SHOOT"
    THEN IF b # 0
         THEN [command |-> "SHOOT", bullets |-> b - 1, num_dodges |-> d]
         ELSE [command |-> "SHOOT_NO_BULLET", bullets |-> b, num_dodges |-> d]
    ELSE IF command = "RELOAD"
    THEN [command |-> "RELOAD", bullets |-> b + 1, num_dodges |-> d]
    ELSE [command |-> "DODGE", bullets |-> b, num_dodges |-> d + 1]

(* ask lines 133-168 on the stripped text of a line: the command          *)
(* returned and the counters after it.                                    *)
AskCommand(value, b, d) ==
    LET command == CommandsOf(value) IN
    IF command = "ValueError"
    THEN [command |-> "STAND", bullets |-> b, num_dodges |-> d]
    ELSE IF command \notin {"SHOOT", "DODGE", "RELOAD"}
    THEN [command |-> "STAND", bullets |-> b, num_dodges |-> d]
    ELSE IF command = "SHOOT"
    THEN IF b # 0
         THEN [command |-> "SHOOT", bullets |-> b - 1, num_dodges |-> d]
         ELSE [command |-> "SHOOT_NO_BULLET", bullets |-> b, num_dodges |-> d]
    ELSE IF command = "RELOAD"
    THEN IF b = MAX_BULLETS
         THEN [command |-> "RELOAD", bullets |-> b, num_dodges |-> d]
         ELSE [command |-> "RELOAD", bullets |-> b + 1, num_dodges |-> d]
    ELSE [command |-> "DODGE", bullets |-> b, num_dodges |-> d + 1]

AfterAsk(k) == IF k = "a" THEN At("ask_alive", "b") ELSE At("resolve", NoK)

(* ask returns `command`; loop stores it in latest_command.               *)
AskReturn(k, command) ==
    /\ latest_command' = [latest_command EXCEPT ![k] = command]
    /\ pc' = AfterAsk(k)

(* ask line 115: not is_alive() -> STAND                                  *)
AskAlive(k) ==
    /\ pc = At("ask_alive", k)
    /\ IF ~IsAlive(k)
       THEN AskReturn(k, "STAND")
       ELSE /\ pc' = At("ask_poll", k)
            /\ UNCHANGED latest_command
    /\ UNCHANGED <<err, has_state, num_turn, winner, description, cont,
                   state_queue, exited, bullets, num_dodges, contestant_name,
                   procVars, chanVars>>

(* read line 100: poll() is not None -> EOFError -> ask returns STAND     *)
AskPoll(k) ==
    /\ pc = At("ask_poll", k)
    /\ IF proc[k] # "running"
       THEN AskReturn(k, "STAND")
       ELSE /\ pc' = At("ask_get", k)
            /\ UNCHANGED latest_command
    /\ UNCHANGED <<err, has_state, num_turn, winner, description, cont,
                   state_queue, exited, bullets, num_dodges, contestant_name,
                   procVars, chanVars>>

(* read line 103: queue.get(timeout=TURN_TIME).  The wait ends with the   *)
(* head of the queue, or, the queue still empty when the time is up,      *)
(* with queue.Empty -> TimeoutError -> ask returns GAME_OVER.  A dequeued *)
(* line is decoded (UnicodeDecodeError is caught nowhere) and             *)
(* interpreted by lines 133-168.                                          *)
AskGet(k) ==
    /\ pc = At("ask_get", k)
    /\ IF stdout_queue[k] = <<>>
       THEN /\ AskReturn(k, "GAME_OVER")
            /\ UNCHANGED <<err, stdout_queue, bullets, num_dodges>>
       ELSE \E line \in LinesOf(Head(stdout_queue[k])) :
            LET text == Decode(line)
                r == AskCommand(Strip(text), bullets[k], num_dodges[k]) IN
            /\ stdout_queue' = [stdout_queue EXCEPT ![k] = Tail(@)]
            /\ IF ~text.ok
               THEN /\ Raise("UnicodeDecodeError")
                    /\ UNCHANGED <<bullets, num_dodges, latest_command>>
               ELSE /\ bullets' = [bullets EXCEPT ![k] = r.bullets]
                    /\ num_dodges' = [num_dodges EXCEPT ![k] = r.num_dodges]
                    /\ AskReturn(k, r.command)
                    /\ UNCHANGED err
    /\ UNCHANGED <<has_state, num_turn, winner, description, cont,
                   state_queue, exited, contestant_name, procVars, pipe, rd>>


(* ---------------------------------------------------------------------- *)
(* loop(), after both asks                                                *)
(* ---------------------------------------------------------------------- *)

(* loop lines 242-251: the contestant left in list("ab") after removing   *)
(* those that answered GAME_OVER, or "none".                              *)
ForfeitWinner(command_a, command_b) ==
    LET winner_list == (IF command_a = "GAME_OVER" THEN <<>> ELSE <<"a">>)
                       \o (IF command_b = "GAME_OVER" THEN <<>> ELSE <<"b">>) IN
    IF winner_list = <<>> THEN "none" ELSE Head(winner_list)

(* Mutant of unprotected: a shooting contestant can be shot.              *)
unprotected_with_shoot == {"SHOOT_NO_BULLET", "RELOAD", "STAND", "SHOOT"}

(* Mutant of unprotected: a dodging contestant can be shot.               *)
unprotected_with_dodge == {"SHOOT_NO_BULLET", "RELOAD", "STAND", "DODGE"}

(* loop line 253 *)
unprotected == {"SHOOT_NO_BULLET", "RELOAD", "STAND"}

(* loop lines 254-261: the shooter of a decisive shot, a tested first.    *)
ShotWinner(command_a, command_b) ==
    IF command_a = "SHOOT" /\ command_b \in unprotected THEN "a"
    ELSE IF command_b = "SHOOT" /\ command_a \in unprotected THEN "b"
    ELSE "none"

(* Mutant of Resolve: a shot that was dodged or answered by a shot gives   *)
(* the shooter its bullet back.                                           *)
Resolve_refunds_shot ==
    LET command_a == latest_command["a"]
        command_b == latest_command["b"] IN
    /\ pc = At("resolve", NoK)
    /\ IF "GAME_OVER" \in {command_a, command_b}
       THEN /\ winner' = ForfeitWinner(command_a, command_b)
            /\ cont' = FALSE
            /\ pc' = At("finish", NoK)
            /\ UNCHANGED bullets
       ELSE IF ShotWinner(command_a, command_b) # "none"
       THEN /\ winner' = ShotWinner(command_a, command_b)
            /\ cont' = FALSE
            /\ pc' = At("finish", NoK)
            /\ UNCHANGED bullets
       ELSE /\ pc' = At("tell", "a")
            /\ bullets' = [k \in Keys |->
                             IF latest_command[k] = "SHOOT"
                             THEN bullets[k] + 1 ELSE bullets[k]]
            /\ UNCHANGED <<winner, cont>>
    /\ UNCHANGED <<err, has_state, num_turn, description, state_queue,
                   exited, num_dodges, latest_command, contestant_name,
                   procVars, chanVars>>

(* loop lines 242-261: forfeit, decisive shot (both return False), or on  *)
(* to tell().                                                             *)
Resolve ==
    LET command_a == latest_command["a"]
        command_b == latest_command["b"] IN
    /\ pc = At("resolve", NoK)
    /\ IF "GAME_OVER" \in {command_a, command_b}
       THEN /\ winner' = ForfeitWinner(command_a, command_b)
            /\ cont' = FALSE
            /\ pc' = At("finish", NoK)
       ELSE IF ShotWinner(command_a, command_b) # "none"
       THEN /\ winner' = ShotWinner(command_a, command_b)
            /\ cont' = FALSE
            /\ pc' = At("finish", NoK)
       ELSE /\ pc' = At("tell", "a")
            /\ UNCHANGED <<winner, cont>>
    /\ UNCHANGED <<err, has_state, num_turn, description, state_queue,
                   contVars, procVars, chanVars>>

(* Contestant.tell, called by loop lines 263-264 with the opponent's      *)
(* command: write and flush on the unbuffered stdin pipe.  With the read  *)
(* end closed the write raises BrokenPipeError, caught nowhere.           *)
Tell(k) ==
    /\ pc = At("tell", k)
    /\ IF stdin_ok[k]
       THEN /\ stdin' = [stdin EXCEPT
                          ![k] = Append(@, Commands[latest_command[Other(k)]])]
            /\ pc' = IF k = "a" THEN At("tell", "b") ELSE At("end_turn", NoK)
            /\ UNCHANGED err
       ELSE /\ Raise("BrokenPipeError")
            /\ UNCHANGED stdin
    /\ UNCHANGED <<has_state, num_turn, winner, description, cont, state_queue,
                   contVars, proc, killed, stdout_open, stdin_ok, written,
                   chanVars>>

(* Mutant of EndTurn: the test of line 268 with > in place of >=.         *)
EndTurn_off_by_one ==
    /\ pc = At("end_turn", NoK)
    /\ num_turn' = num_turn + 1
    /\ cont' = ~(num_turn' > TOTAL_TURNS)
    /\ pc' = IF cont' THEN At("write_to_ui_queue", NoK) ELSE At("finish", NoK)
    /\ UNCHANGED <<err, has_state, winner, description, state_queue,
                   contVars, procVars, chanVars>>

(* loop lines 266-271, and game() line 196: finish() only when loop       *)
(* returned False.                                                        *)
EndTurn ==
    /\ pc = At("end_turn", NoK)
    /\ num_turn' = num_turn + 1
    /\ cont' = ~(num_turn' >= TOTAL_TURNS)
    /\ pc' = IF cont' THEN At("write_to_ui_queue", NoK) ELSE At("finish", NoK)
    /\ UNCHANGED <<err, has_state, winner, description, state_queue,
                   contVars, procVars, chanVars>>

(* ---------------------------------------------------------------------- *)
(* finish(), write_to_ui_queue(), clean()                                 *)
(* ---------------------------------------------------------------------- *)

Abs(n) == IF n < 0 THEN -n ELSE n

(* Mutant of FinishResults: the comparison of line 310 reversed, so that  *)
(* the contestant with more dodges wins.                                  *)
FinishResults_more_dodges(w, dodges_a, dodges_b) ==
    LET diff_dodges == dodges_a - dodges_b IN
    IF w = "none"
    THEN IF diff_dodges # 0
         THEN LET by_dodges == IF diff_dodges > 0 THEN "a" ELSE "b" IN
              {[winner |-> by_dodges,
                description |-> Description("dodged less", by_dodges, Abs(diff_dodges))]}
         ELSE {[winner |-> c, description |-> Description("toss a coin", c, 0)] :
                 c \in Keys}
    ELSE {[winner |-> w, description |-> Description("wins", w, 0)]}

(* Mutant of FinishResults: without the test of line 307, finish()        *)
(* compares the dodges also when loop() has set a winner.                 *)
FinishResults_ignores_winner(w, dodges_a, dodges_b) ==
    LET diff_dodges == dodges_a - dodges_b IN
    IF diff_dodges # 0
    THEN LET by_dodges == IF diff_dodges < 0 THEN "a" ELSE "b" IN
         {[winner |-> by_dodges,
           description |-> Description("dodged less", by_dodges, Abs(diff_dodges))]}
    ELSE {[winner |-> c, description |-> Description("toss a coin", c, 0)] :
            c \in Keys}

(* finish lines 305-320: the winners finish() can choose and the          *)
(* description that goes with each; random.choice is either contestant.   *)
FinishResults(w, dodges_a, dodges_b) ==
    LET diff_dodges == dodges_a - dodges_b IN
    IF w = "none"
    THEN IF diff_dodges # 0
         THEN LET by_dodges == IF diff_dodges < 0 THEN "a" ELSE "b" IN
              {[winner |-> by_dodges,
                description |-> Description("dodged less", by_dodges, Abs(diff_dodges))]}
         ELSE {[winner |-> c, description |-> Description("toss a coin", c, 0)] :
                 c \in Keys}
    ELSE {[winner |-> w, description |-> Description("wins", w, 0)]}

Finish ==
    /\ pc = At("finish", NoK)
    /\ \E r \in FinishResults(winner, num_dodges["a"], num_dodges["b"]) :
          /\ winner' = r.winner
          /\ description' = r.description
    /\ pc' = At("write_to_ui_queue", NoK)
    /\ UNCHANGED <<err, has_state, num_turn, cont, state_queue,
                   contVars, procVars, chanVars>>

(* write_to_ui_queue lines 274-299: the snapshot (contestant names left   *)
(* out).  winner_key is "none" when the key is absent.                    *)
Snapshot ==
    [num_turn |-> num_turn,
     description |-> IF description # NoDescription THEN description
                     ELSE Description("un truc au pif", NoK, 0),
     a |-> [bullets |-> bullets["a"],
            command |-> Commands[latest_command["a"]],
            num_dodges |-> num_dodges["a"]],
     b |-> [bullets |-> bullets["b"],
            command |-> Commands[latest_command["b"]],
            num_dodges |-> num_dodges["b"]],
     winner_key |-> IF winner # "none"
                    THEN (IF winner = "a" THEN "a" ELSE "b")
                    ELSE "none"]

(* write_to_ui_queue, then game() lines 199-200.                          *)
WriteToUiQueue ==
    /\ pc = At("write_to_ui_queue", NoK)
    /\ state_queue' = Append(state_queue, Snapshot)
    /\ pc' = IF cont THEN At("ask_alive", "a") ELSE At("clean", "a")
    /\ UNCHANGED <<err, has_state, num_turn, winner, description, cont,
                   contVars, procVars, chanVars>>

(* clean lines 327-334: state[k].kill(), or KeyError when setup() never   *)
(* returned a state.  kill closes stdin and kills the process.            *)
Clean(k) ==
    /\ pc = At("clean", k)
    /\ IF has_state
       THEN /\ killed' = [killed EXCEPT ![k] = TRUE]
            /\ proc' = [proc EXCEPT ![k] = "exited"]
            /\ stdout_open' = [stdout_open EXCEPT ![k] = FALSE]
            /\ stdin_ok' = [stdin_ok EXCEPT ![k] = FALSE]
       ELSE UNCHANGED <<killed, proc, stdout_open, stdin_ok>>
    /\ pc' = IF k = "a" THEN At("clean", "b") ELSE At("done", NoK)
    /\ UNCHANGED <<err, has_state, num_turn, winner, description, cont,
                   state_queue, contVars, stdin, written, chanVars>>

(* ---------------------------------------------------------------------- *)
(* Specifications                                                         *)
(* ---------------------------------------------------------------------- *)

(* One step of the arbiter thread (game()).                               *)
Arbiter ==
    \/ \E k \in Keys : Start(k)
    \/ \E k \in Keys : NamePoll(k)
    \/ \E k \in Keys : NameGet(k)
    \/ \E k \in Keys : SetupAlive(k)
    \/ \E k \in Keys : AskAlive(k)
    \/ \E k \in Keys : AskPoll(k)
    \/ \E k \in Keys : AskGet(k)
    \/ Resolve
    \/ \E k \in Keys : Tell(k)
    \/ EndTurn
    \/ Finish
    \/ WriteToUiQueue
    \/ \E k \in Keys : Clean(k)

Next == Arbiter \/ Environment

Spec == Init /\ [][Next]_vars

(* The match of two contestants that keep running, write two lines of    *)
(* their own (their name, their first command) and from then on echo      *)
(* what they are told.                                                    *)
Opening(k) == written[k] < 2 /\ Write(k, 1)

EchoEnvironment ==
    \E k \in Keys :
        \/ Opening(k)
        \/ Echo(k)
        \/ ReaderPut(k)

EchoNext == Arbiter \/ EchoEnvironment

EchoSpec == Init /\ [][EchoNext]_vars

(* The match of two contestants that keep running and write ahead of the *)
(* arbiter, up to one line more than the queue can hold.                  *)
AheadEnvironment ==
    \E k \in Keys :
        \/ Write(k, 1 + TOTAL_TURNS)
        \/ ReaderPut(k)

AheadNext == Arbiter \/ AheadEnvironment

AheadSpec == Init /\ [][AheadNext]_vars

(* The match of two contestants that keep running and write their next   *)
(* line, with its bytes, once the arbiter has dequeued the one before.    *)
SayEnvironment ==
    \E k \in Keys :
        \/ Say(k, 0)
        \/ ReaderPut(k)

SayNext == Arbiter \/ SayEnvironment

SaySpec == Init /\ [][SayNext]_vars

(* The arbiter thread is always scheduled and each of its steps ends      *)
(* (poll and write do not wait, queue.get waits at most its timeout);     *)
(* nothing is assumed of the contestants or the reader threads.           *)
FairSpec == Spec /\ WF_vars(Arbiter)


(* ---------------------------------------------------------------------- *)
(* Vocabulary of the properties                                           *)
(* ---------------------------------------------------------------------- *)

AskPcs == {"ask_alive", "ask_poll", "ask_get"}
TurnPcs == AskPcs \cup {"resolve", "tell", "end_turn"}
(* Positions of game() once loop() has returned False.                    *)
EndPcs == {"finish", "write_to_ui_queue", "clean", "done"}

(* The step in which ask() of contestant k returns; latest_command'[k] is *)
(* the command it returns.                                                *)
AskReturns(k) == pc.k = k /\ pc.at \in AskPcs /\ pc' = AfterAsk(k)
(* The step of loop() lines 242-261.                                      *)
ResolveStep == pc.at = "resolve" /\ pc'.at # "resolve"
FinishStep == pc.at = "finish" /\ pc'.at # "finish"

(* Ammunition of k when the current turn began: 1 in the first turn,      *)
(* afterwards what the snapshot of the turn before shows.                 *)
TurnStartBullets(k) ==
    IF state_queue = <<>> THEN 1
    ELSE state_queue[Len(state_queue)][k].bullets

(* ---------------------------------------------------------------------- *)
(* C1: in a turn without GAME_OVER, SHOOT against DODGE or SHOOT is not   *)
(* decisive (loop sets no winner and goes on to tell()); SHOOT against    *)
(* STAND, RELOAD or SHOOT_NO_BULLET makes the shooter the winner in that  *)
(* turn, with one bullet less than at the start of the turn, and once     *)
(* loop() has returned False no further turn is executed.                 *)
(* ---------------------------------------------------------------------- *)
C1_ShootRule ==
    /\ [][(ResolveStep /\ "GAME_OVER" \notin {latest_command["a"], latest_command["b"]})
          => \A k \in Keys :
               LET mine == latest_command[k]
                   theirs == latest_command[Other(k)] IN
               /\ (mine = "SHOOT" /\ theirs \in {"DODGE", "SHOOT"})
                    => (winner' = "none" /\ cont' /\ pc' = At("tell", "a")
                        /\ num_turn' = num_turn)
               /\ (mine = "SHOOT" /\ theirs \in {"STAND", "RELOAD", "SHOOT_NO_BULLET"})
                    => (winner' = k /\ ~cont' /\ pc' = At("finish", NoK)
                        /\ bullets'[k] = TurnStartBullets(k) - 1)]_vars
    /\ [][~cont => (~cont' /\ pc'.at \in EndPcs)]_vars

(* A match of two turns: a shoots while b dodges (snapshot without        *)
(* winner), then b shoots a, who is out of bullets.                       *)
C1_Witness ==
    /\ pc.at = "done"
    /\ Len(state_queue) = 2
    /\ state_queue[1].a.command = "shoot"
    /\ state_queue[1].b.command = "dodge"
    /\ state_queue[1].winner_key = "none"
    /\ state_queue[2].a.command = "shoot_no_bullet"
    /\ state_queue[2].b.command = "shoot"
    /\ state_queue[2].b.bullets = 0
    /\ winner = "b"


(* ---------------------------------------------------------------------- *)
(* C2: a turn in which exactly one contestant answered GAME_OVER ends the *)
(* match with the other one as winner, whatever the other's command; when *)
(* both did, loop() sets no winner and finish() chooses it (fewer dodges, *)
(* else either contestant).  In both cases the turn counter is not        *)
(* incremented and no later turn runs.                                    *)
(* ---------------------------------------------------------------------- *)
GameOver(k) == latest_command[k] = "GAME_OVER"
BothGameOver == GameOver("a") /\ GameOver("b")

C2_Forfeit ==
    /\ [][(ResolveStep /\ (GameOver("a") \/ GameOver("b")))
          => /\ \A k \in Keys :
                  (GameOver(k) /\ ~GameOver(Other(k))) => winner' = Other(k)
             /\ BothGameOver => winner' = "none"
             /\ ~cont'
             /\ pc' = At("finish", NoK)]_vars
    /\ [][(FinishStep /\ BothGameOver)
          => /\ num_dodges["a"] < num_dodges["b"] => winner' = "a"
             /\ num_dodges["b"] < num_dodges["a"] => winner' = "b"
             /\ winner' \in Keys]_vars
    /\ [][(GameOver("a") \/ GameOver("b"))
          => /\ num_turn' = num_turn
             /\ pc'.at \notin {"tell", "end_turn"}
             /\ pc' # At("ask_alive", "a")]_vars
    /\ [](\A k \in Keys :
            (pc.at = "done" /\ GameOver(k) /\ ~GameOver(Other(k)))
               => winner = Other(k))

(* Both contestants time out in the second turn, after a turn in which    *)
(* only a dodged: finish() names b and the counter stays at 1.            *)
C2_Witness ==
    /\ pc.at = "done"
    /\ BothGameOver
    /\ num_turn = 1
    /\ num_dodges["a"] = 1
    /\ num_dodges["b"] = 0
    /\ winner = "b"
    /\ Len(state_queue) = 2

(* ---------------------------------------------------------------------- *)
(* C3: finish() is entered without a winner only at the turn limit or     *)
(* after a double forfeit; it then names the contestant with strictly     *)
(* fewer dodges, or, the counts being equal, either contestant (both      *)
(* draws are possible), with the description of that one path; after      *)
(* finish() the winner is a contestant and the description is set.        *)
(* ---------------------------------------------------------------------- *)
C3_Finish ==
    /\ [][(FinishStep /\ winner = "none")
          => LET da == num_dodges["a"]
                 db == num_dodges["b"] IN
             /\ da < db => (winner' = "a"
                            /\ description' = Description("dodged less", "a", db - da))
             /\ db < da => (winner' = "b"
                            /\ description' = Description("dodged less", "b", da - db))
             /\ da = db => (winner' \in Keys
                            /\ description' = Description("toss a coin", winner', 0))]_vars
    /\ []((pc.at = "finish" /\ winner = "none")
            => (num_turn = TOTAL_TURNS \/ BothGameOver))
    /\ []((pc.at = "finish" /\ winner = "none"
            /\ num_dodges["a"] = num_dodges["b"])
            => \A c \in Keys : ENABLED (Finish /\ winner' = c))
    /\ []((~cont /\ pc.at \in {"write_to_ui_queue", "clean", "done"})
            => (winner \in Keys /\ description # NoDescription
                /\ description.who = winner))

(* The turn limit is reached without a winner and b has dodged more.      *)
C3_Witness ==
    /\ pc.at = "done"
    /\ num_turn = TOTAL_TURNS
    /\ num_dodges["a"] < num_dodges["b"]
    /\ winner = "a"
    /\ description.kind = "dodged less"

(* ---------------------------------------------------------------------- *)
(* C4: ammunition stays in 0..MAX_BULLETS and starts at 1; an ask that    *)
(* returns RELOAD adds one bullet or leaves a full magazine as it is, one *)
(* that returns SHOOT takes exactly one bullet, one that returns          *)
(* SHOOT_NO_BULLET had no bullet and changes nothing; the dodge count     *)
(* never decreases.                                                       *)
(* ---------------------------------------------------------------------- *)
C4_Ammunition ==
    /\ [](\A k \in Keys : bullets[k] \in 0..MAX_BULLETS /\ num_dodges[k] >= 0)
    /\ [][(pc.at = "setup_alive" /\ pc'.at = "ask_alive")
          => \A k \in Keys : bullets'[k] = 1 /\ num_dodges'[k] = 0]_vars
    /\ [][\A k \in Keys :
            AskReturns(k) =>
              /\ latest_command'[k] = "RELOAD"
                   => bullets'[k] = (IF bullets[k] = MAX_BULLETS
                                     THEN MAX_BULLETS ELSE bullets[k] + 1)
              /\ latest_command'[k] = "SHOOT"
                   => bullets'[k] = bullets[k] - 1
              /\ latest_command'[k] = "SHOOT_NO_BULLET"
                   => (bullets[k] = 0 /\ bullets'[k] = 0
                       /\ num_dodges'[k] = num_dodges[k])
              /\ latest_command'[k] \notin {"RELOAD", "SHOOT"}
                   => bullets'[k] = bullets[k]]_vars
    /\ [][\A k \in Keys : num_dodges'[k] >= num_dodges[k]]_vars

(* a reloads in both turns: 1 -> 2 = MAX_BULLETS, then the magazine is    *)
(* full and stays at MAX_BULLETS.                                         *)
C4_Witness ==
    /\ Len(state_queue) = 1
    /\ state_queue[1].a.command = "reload"
    /\ state_queue[1].a.bullets = MAX_BULLETS
    /\ pc.at = "resolve"
    /\ latest_command["a"] = "RELOAD"
    /\ bullets["a"] = MAX_BULLETS


(* ---------------------------------------------------------------------- *)
(* C5: once setup has succeeded the arbiter does not abort; in            *)
(* particular, in a non-decisive turn tell() to both contestants          *)
(* completes and the turn goes on to the increment of the counter, also   *)
(* when a contestant's process has exited.                                *)
(* ---------------------------------------------------------------------- *)
C5_TellCompletes ==
    [][pc.at = "tell" => pc'.at \in {"tell", "end_turn"}]_vars

(* ---------------------------------------------------------------------- *)
(* C6: an ask() of a contestant whose process has exited never returns   *)
(* GAME_OVER (the contestant does not forfeit because of the exit),       *)
(* wherever the exit falls between the liveness check, the poll and the   *)
(* timed wait of ask().                                                   *)
(* ---------------------------------------------------------------------- *)
C6_ExitedNeverForfeits ==
    [][\A k \in Keys :
         (AskReturns(k) /\ proc[k] = "exited")
            => latest_command'[k] # "GAME_OVER"]_vars

(* ---------------------------------------------------------------------- *)
(* C7: a line dequeued during a turn that cannot be decoded does not      *)
(* abort the arbiter: no UnicodeDecodeError leaves game() once the match  *)
(* has started.                                                           *)
(* ---------------------------------------------------------------------- *)
C7_DecodeFailureStands ==
    has_state => err # "UnicodeDecodeError"

(* ---------------------------------------------------------------------- *)
(* C8: the winner is set only by loop()'s forfeit or shot rule or by      *)
(* finish(); once set it is never changed or unset (finish() keeps it),   *)
(* and while a winner is set no turn is being executed.                   *)
(* ---------------------------------------------------------------------- *)
C8_WinnerFinal ==
    /\ [][winner # "none" => winner' = winner]_vars
    /\ [][(winner = "none" /\ winner' # "none") => (ResolveStep \/ FinishStep)]_vars
    /\ [](winner # "none" => (~cont /\ pc.at \in EndPcs))

(* a dodged in the first turn and shot b in the second: loop() named a,   *)
(* and finish() kept a although b has dodged less.                        *)
C8_Witness ==
    /\ pc.at = "done"
    /\ winner = "a"
    /\ description = Description("wins", "a", 0)
    /\ num_dodges["a"] > num_dodges["b"]
    /\ latest_command["a"] = "SHOOT"

(* ---------------------------------------------------------------------- *)
(* C9: the turn counter starts at 0, changes only by +1 at the end of a   *)
(* non-decisive turn, is unchanged once loop() has returned False, and    *)
(* stays within 0..TOTAL_TURNS; no turn is executed with the counter at   *)
(* TOTAL_TURNS (the match ends in the turn that reaches it), and every    *)
(* started match ends (game() returns).                                   *)
(* ---------------------------------------------------------------------- *)
C9_TurnCounter ==
    /\ [](num_turn \in 0..TOTAL_TURNS)
    /\ [](~has_state => num_turn = 0)
    /\ [][num_turn' # num_turn
          => (pc.at = "end_turn" /\ num_turn' = num_turn + 1)]_vars
    /\ [][(pc.at = "end_turn" /\ pc'.at # "end_turn")
          => num_turn' = num_turn + 1]_vars
    /\ [][~cont => num_turn' = num_turn]_vars
    /\ [](pc.at \in TurnPcs => num_turn < TOTAL_TURNS)
    /\ [](num_turn = TOTAL_TURNS => (~cont /\ pc.at \in EndPcs))
    /\ (has_state ~> pc.at = "done")

(* The match ran to the turn limit.                                       *)
C9_Witness ==
    /\ pc.at = "done"
    /\ num_turn = TOTAL_TURNS
    /\ Len(state_queue) = TOTAL_TURNS

(* ---------------------------------------------------------------------- *)
(* C10: every read() ends with a line, EndOfStream or Timeout: the timed  *)
(* wait on the queue hands its caller a line or the timeout, and nothing  *)
(* else.                                                                  *)
(* ---------------------------------------------------------------------- *)
C10_ReadOutcomes ==
    [][\A k \in Keys :
         /\ pc = At("ask_get", k) => pc' \in {pc, AfterAsk(k)}
         /\ pc = At("name_get", k) => pc' \in {pc, AfterInit(k)}]_vars

(* ---------------------------------------------------------------------- *)
(* C11: tell() is called exactly in the turns that are neither a forfeit  *)
(* nor a decisive shot, for a and then for b; each call writes the        *)
(* opponent's command of that turn, one of stand, shoot, dodge, reload,   *)
(* shoot_no_bullet, and completes; nothing is written to a contestant     *)
(* outside tell(), and game_over is never written.                        *)
(* ---------------------------------------------------------------------- *)
ToldTokens == {"stand", "shoot", "dodge", "reload", "shoot_no_bullet"}
Decisive ==
    \/ GameOver("a") \/ GameOver("b")
    \/ \E k \in Keys :
          /\ latest_command[k] = "SHOOT"
          /\ latest_command[Other(k)] \in {"STAND", "RELOAD", "SHOOT_NO_BULLET"}

C11_TellOpponentCommand ==
    /\ [][ResolveStep => IF Decisive THEN pc' = At("finish", NoK)
                                     ELSE pc' = At("tell", "a")]_vars
    /\ [][stdin' # stdin => pc.at = "tell"]_vars
    /\ [](\A k \in Keys : \A i \in 1..Len(stdin[k]) : stdin[k][i] \in ToldTokens)
    /\ [](pc.at = "tell" => ~Decisive)
    /\ [][\A k \in Keys :
            (pc = At("tell", k) /\ pc' # pc)
               => /\ stdin'[k] = Append(stdin[k], Commands[latest_command[Other(k)]])
                  /\ stdin'[Other(k)] = stdin[Other(k)]
                  /\ pc' = (IF k = "a" THEN At("tell", "b")
                                       ELSE At("end_turn", NoK))]_vars
    /\ [][pc'.at = "end_turn" => pc.at \in {"end_turn", "tell"} /\ pc.k \in {NoK, "b"}]_vars

(* ---------------------------------------------------------------------- *)
(* C12: during the match a contestant's ammunition and dodge count change *)
(* only in the step in which its own ask() returns, hence at most once    *)
(* per turn, and the change is fixed by its own resolved command and its  *)
(* own ammunition before the ask; the opponent's ask(), the resolution,   *)
(* tell(), the counter increment, finish(), the snapshot and clean()      *)
(* leave both unchanged, and a snapshot is taken only after both asks.    *)
(* ---------------------------------------------------------------------- *)
TurnStartDodges(k) ==
    IF state_queue = <<>> THEN 0
    ELSE state_queue[Len(state_queue)][k].num_dodges

C12_OwnAskOnly ==
    /\ [][\A k \in Keys :
            (has_state /\ (bullets'[k] # bullets[k] \/ num_dodges'[k] # num_dodges[k]))
               => AskReturns(k)]_vars
    /\ [][\A k \in Keys :
            AskReturns(k) =>
              LET command == latest_command'[k] IN
              /\ bullets'[Other(k)] = bullets[Other(k)]
              /\ num_dodges'[Other(k)] = num_dodges[Other(k)]
              /\ bullets[k] = TurnStartBullets(k)
              /\ num_dodges[k] = TurnStartDodges(k)
              /\ bullets'[k] = (IF command = "SHOOT" THEN bullets[k] - 1
                                ELSE IF command = "RELOAD" /\ bullets[k] < MAX_BULLETS
                                THEN bullets[k] + 1
                                ELSE bullets[k])
              /\ num_dodges'[k] = (IF command = "DODGE" THEN num_dodges[k] + 1
                                   ELSE num_dodges[k])]_vars
    /\ [][pc.at \in {"resolve", "tell", "end_turn", "finish",
                     "write_to_ui_queue", "clean", "done"}
            => (bullets' = bullets /\ num_dodges' = num_dodges)]_vars
    /\ [][state_queue' # state_queue => pc.at = "write_to_ui_queue"]_vars

(* Second turn, both asks done: a reloaded (one bullet more, dodges as    *)
(* before) and b dodged (one dodge more, bullets as before).              *)
C12_Witness ==
    /\ pc.at = "resolve"
    /\ Len(state_queue) = 1
    /\ latest_command["a"] = "RELOAD"
    /\ bullets["a"] = TurnStartBullets("a") + 1
    /\ num_dodges["a"] = TurnStartDodges("a")
    /\ latest_command["b"] = "DODGE"
    /\ num_dodges["b"] = TurnStartDodges("b") + 1
    /\ bullets["b"] = TurnStartBullets("b")

(* ---------------------------------------------------------------------- *)
(* C13: a contestant whose spawn failed, whose startup read ended in      *)
(* EndOfStream, in Timeout or in an empty name, is marked exited for      *)
(* good; a contestant that is marked exited or whose process is not       *)
(* running when setup() tests it makes setup() leave through              *)
(* sys.exit(1).  With a contestant marked exited no turn is ever          *)
(* executed and no snapshot is put, and game() ends with an exception.    *)
(* Conversely game() holds a state, executes turns and puts snapshots     *)
(* only after each contestant passed is_alive() at the end of setup.      *)
(* ---------------------------------------------------------------------- *)
SetupPcs == {"start", "name_poll", "name_get", "setup_alive"}

C13_SetupAbort ==
    /\ [][\A k \in Keys :
            /\ (pc = At("start", k) /\ pc' # pc /\ proc'[k] # "running")
                  => exited'[k]
            /\ (pc = At("name_poll", k) /\ pc' # pc /\ proc[k] # "running")
                  => exited'[k]
            /\ (pc = At("name_get", k) /\ pc' # pc /\ stdout_queue[k] = <<>>)
                  => exited'[k]
            /\ (pc = At("name_get", k) /\ pc' # pc /\ contestant_name'[k] = "")
                  => exited'[k]
            /\ exited[k] => exited'[k]
            /\ (pc = At("setup_alive", k) /\ pc' # pc
                /\ (exited[k] \/ proc[k] # "running"))
                  => (err' = "SystemExit" /\ pc'.at = "clean" /\ ~has_state')]_vars
    /\ []((\E k \in Keys : exited[k])
            => (/\ ~has_state
                /\ state_queue = <<>>
                /\ pc.at \in SetupPcs \cup {"clean", "done"}))
    /\ []((pc.at = "done" /\ \E k \in Keys : exited[k])
            => err \in {"SystemExit", "UnicodeDecodeError"})
    /\ [][(pc' = At("setup_alive", "b") /\ pc' # pc)
            => (~exited["a"] /\ proc["a"] = "running")]_vars
    /\ [][has_state' # has_state
            => (/\ has_state'
                /\ pc = At("setup_alive", "b")
                /\ ~exited["b"] /\ proc["b"] = "running")]_vars
    /\ []((pc.at \in TurnPcs \cup {"finish", "write_to_ui_queue"}
           \/ state_queue # <<>>)
            => (has_state /\ \A k \in Keys : contestant_name[k] = "name"))

(* a sent its name and keeps running, b sent an empty name: setup() left  *)
(* through sys.exit(1) and game() has ended without a snapshot.           *)
C13_Witness ==
    /\ pc.at = "done"
    /\ err = "SystemExit"
    /\ contestant_name["a"] = "name"
    /\ ~exited["a"]
    /\ contestant_name["b"] = ""
    /\ exited["b"]
    /\ state_queue = <<>>
    /\ num_turn = 0

(* ---------------------------------------------------------------------- *)
(* C14: a token that tell() wrote to a contestant and that the contestant *)
(* echoed is resolved by ask() as follows: stand, dodge and reload to the *)
(* command that was written; shoot to SHOOT when the contestant has       *)
(* ammunition and to SHOOT_NO_BULLET when it has none; shoot_no_bullet to *)
(* STAND.                                                                 *)
(* ---------------------------------------------------------------------- *)
(* The step in which ask() of k returns with the echoed line it dequeued. *)
AskReadsEcho(k) ==
    /\ AskReturns(k)
    /\ pc.at = "ask_get"
    /\ stdout_queue[k] # <<>>
    /\ Head(stdout_queue[k]).line # AnyLine
EchoedToken(k) == Head(stdout_queue[k]).line.tok

C15_SnapshotPerTurn ==
    /\ [][state_queue' # state_queue
            => (/\ pc.at = "write_to_ui_queue"
                /\ Len(state_queue') = Len(state_queue) + 1
                /\ SubSeq(state_queue', 1, Len(state_queue)) = state_queue)]_vars
    /\ [][(pc.at = "write_to_ui_queue" /\ pc' # pc)
            => Len(state_queue') = Len(state_queue) + 1]_vars
    /\ [](pc.at \in TurnPcs
            => (/\ Len(state_queue) = num_turn
                /\ \A i \in 1..Len(state_queue) :
                      /\ state_queue[i].num_turn = i
                      /\ state_queue[i].winner_key = "none"))
    /\ []((pc.at = "write_to_ui_queue" /\ ~cont)
            => (winner \in Keys /\ description # NoDescription))
    /\ []((pc.at = "done" /\ has_state)
            => (/\ state_queue # <<>>
                /\ \/ Decisive /\ Len(state_queue) = num_turn + 1
                   \/ ~Decisive /\ num_turn = TOTAL_TURNS
                                /\ Len(state_queue) = TOTAL_TURNS
                /\ state_queue[Len(state_queue)].winner_key = winner
                /\ winner \in Keys
                /\ \A i \in 1..(Len(state_queue) - 1) :
                      state_queue[i].winner_key = "none"))

(* ---------------------------------------------------------------------- *)
(* C16: every snapshot put before the match has ended (cont still true)   *)
(* has the empty string as description; the snapshot put after finish()   *)
(* has the description finish() built, which is not empty; and            *)
(* state["description"] is assigned once, by finish().                    *)
(* ---------------------------------------------------------------------- *)
EmptyDescription == Description("", NoK, 0)

C16_DescriptionEmptyUntilEnd ==
    /\ [][(pc.at = "write_to_ui_queue" /\ pc' # pc)
            => LET put == state_queue'[Len(state_queue')] IN
               IF cont THEN put.description = EmptyDescription
               ELSE put.description = description
                    /\ put.description \notin {EmptyDescription, NoDescription}]_vars
    /\ [][description' # description
            => (FinishStep /\ description = NoDescription)]_vars

(* ---------------------------------------------------------------------- *)
(* C17: when ask() returns after dequeuing a line of text whose stripped  *)
(* text is not exactly shoot, dodge or reload (stand, shoot_no_bullet,    *)
(* game_over, SHOOT, fire, the empty line, ...), it returns STAND and     *)
(* leaves the contestant's ammunition and dodge count unchanged; ask()    *)
(* returns GAME_OVER only when the timed wait found the queue empty, and  *)
(* SHOOT_NO_BULLET only for the line shoot dequeued with no ammunition.   *)
(* ---------------------------------------------------------------------- *)
(* ask() of k is at the timed wait and a decodable line is in the queue.  *)
AskHasText(k) ==
    /\ pc = At("ask_get", k)
    /\ stdout_queue[k] # <<>>
    /\ Head(stdout_queue[k]).line # AnyLine
    /\ Decode(Head(stdout_queue[k]).line).ok
AskText(k) == Strip(Decode(Head(stdout_queue[k]).line))

C17_InvalidInputStands ==
    [][\A k \in Keys :
         AskReturns(k) =>
           /\ (AskHasText(k) /\ AskText(k) \notin {"shoot", "dodge", "reload"})
                => (/\ latest_command'[k] = "STAND"
                    /\ bullets'[k] = bullets[k]
                    /\ num_dodges'[k] = num_dodges[k])
           /\ latest_command'[k] = "GAME_OVER"
                => (pc = At("ask_get", k) /\ stdout_queue[k] = <<>>)
           /\ latest_command'[k] = "SHOOT_NO_BULLET"
                => (AskHasText(k) /\ AskText(k) = "shoot" /\ bullets[k] = 0)]_vars

(* Second turn: ask(a) has returned SHOOT_NO_BULLET for a shoot without   *)
(* ammunition, b has dodged once, and ask(b) is about to dequeue the line *)
(* shoot_no_bullet.                                                       *)
C17_Witness ==
    /\ pc = At("ask_get", "b")
    /\ num_turn = 1
    /\ latest_command["a"] = "SHOOT_NO_BULLET"
    /\ bullets["a"] = 0
    /\ num_dodges["b"] = 1
    /\ stdout_queue["b"] # <<>>
    /\ Head(stdout_queue["b"]).line = Line("shoot_no_bullet", FALSE, TRUE)

(* ---------------------------------------------------------------------- *)
(* C18: a contestant's queue changes only by its reader thread appending  *)
(* the oldest line of the pipe and by the arbiter's read() removing the   *)
(* head; it never holds more than 1 + TOTAL_TURNS lines; the startup read *)
(* dequeues the first line the process wrote and the read of turn t, the  *)
(* t + 1st turn read, the line it wrote t + 1st after its name, however   *)
(* far ahead it writes; and the lines between the process and the         *)
(* arbiter are, in order and each once, the last lines it wrote: none is  *)
(* dropped, none is read twice.                                           *)
(* ---------------------------------------------------------------------- *)
(* The lines of k on their way to the arbiter, oldest first.              *)
InFlight(k) == stdout_queue[k] \o pipe[k]

C18_QueueFifo ==
    /\ [](\A k \in Keys : Len(stdout_queue[k]) <= 1 + TOTAL_TURNS)
    /\ [][\A k \in Keys :
            stdout_queue'[k] # stdout_queue[k]
              => \/ /\ rd[k] = "run"
                    /\ pipe[k] # <<>>
                    /\ stdout_queue'[k] = Append(stdout_queue[k], Head(pipe[k]))
                    /\ pipe'[k] = Tail(pipe[k])
                    /\ pc' = pc
                 \/ /\ pc \in {At("name_get", k), At("ask_get", k)}
                    /\ pc' # pc
                    /\ stdout_queue[k] # <<>>
                    /\ stdout_queue'[k] = Tail(stdout_queue[k])
                    /\ pipe'[k] = pipe[k]]_vars
    /\ [][\A k \in Keys :
            /\ (pc = At("name_get", k) /\ pc' # pc /\ stdout_queue[k] # <<>>)
                 => (Head(stdout_queue[k]).n = 1
                     /\ stdout_queue'[k] = Tail(stdout_queue[k]))
            /\ (pc = At("ask_get", k) /\ pc' # pc /\ stdout_queue[k] # <<>>)
                 => (Head(stdout_queue[k]).n = num_turn + 2
                     /\ stdout_queue'[k] = Tail(stdout_queue[k]))]_vars
    /\ [](\A k \in Keys :
            \A i \in 1..Len(InFlight(k)) :
               InFlight(k)[i].n = written[k] - Len(InFlight(k)) + i)

(* Second turn: ask(a) has dequeued the third line a wrote, while a is    *)
(* four lines ahead: the queue is full and one more line waits in the     *)
(* pipe.                                                                  *)
C18_Witness ==
    /\ pc = At("ask_alive", "b")
    /\ num_turn = 1
    /\ latest_command["a"] \in {"STAND", "SHOOT", "DODGE", "RELOAD", "SHOOT_NO_BULLET"}
    /\ proc["a"] = "running"
    /\ written["a"] = 7
    /\ Len(stdout_queue["a"]) = 1 + TOTAL_TURNS
    /\ Head(stdout_queue["a"]).n = 4
    /\ Len(pipe["a"]) = 1

(* ---------------------------------------------------------------------- *)
(* C19: when game() has ended, by whatever path, kill() has been called   *)
(* on every contestant whose subprocess was spawned, and no spawned       *)
(* process is still running.                                              *)
(* ---------------------------------------------------------------------- *)
C19_AllSpawnedKilled ==
    pc.at = "done"
      => \A k \in Keys : proc[k] # "none" => (killed[k] /\ proc[k] # "running")

(* ---------------------------------------------------------------------- *)
(* C20: when loop() resolves a turn the two decisive-shot conditions of   *)
(* lines 254 and 258 never hold together, so the winner of a decisive     *)
(* shot is the one contestant whose condition holds, whichever condition  *)
(* is tested first, and two contestants that both shoot go on to tell().  *)
(* ---------------------------------------------------------------------- *)
(* The condition of line 254 (k = "a") or 258 (k = "b").                  *)
ShotCondition(k) ==
    /\ latest_command[k] = "SHOOT"
    /\ latest_command[Other(k)] \in {"SHOOT_NO_BULLET", "RELOAD", "STAND"}

C20_NoMutualKill ==
    /\ [](pc.at = "resolve" => ~(ShotCondition("a") /\ ShotCondition("b")))
    /\ [][(ResolveStep /\ ~GameOver("a") /\ ~GameOver("b"))
            => /\ \A k \in Keys : ShotCondition(k) <=> winner' = k
               /\ (latest_command["a"] = "SHOOT" /\ latest_command["b"] = "SHOOT")
                     => (winner' = "none" /\ pc' = At("tell", "a"))]_vars

(* Both contestants shot in the same turn: no winner, and loop() has gone *)
(* on to tell().                                                          *)
C20_Witness ==
    /\ pc = At("tell", "a")
    /\ latest_command["a"] = "SHOOT"
    /\ latest_command["b"] = "SHOOT"
    /\ bullets["a"] = 0
    /\ bullets["b"] = 0
    /\ winner = "none"

=============================================================================
